---- MODULE Spec2Model ----
(***************************************************************************)
(* State-machine model of the OKX tool: the balance aggregator, the fund   *)
(* router, the withdrawal executor (src/account.py), the withdraw workflow *)
(* with its batch loop (src/main.py), the configuration draws              *)
(* (src/config.py) and the proxy validation (src/utils.py).                *)
(*                                                                         *)
(* The exchange is an external collaborator: every REST call answers with  *)
(* a value drawn from a bounded set, or raises (a transient fault).        *)
(* Amounts are whole numbers of the smallest unit; float(availBal) keeps   *)
(* the numeric value of the string the exchange sends. Numbers of the      *)
(* configuration file are counted in 1/Denom, drawn amounts in             *)
(* 1/(Denom * Grain).                                                      *)
(***************************************************************************)
EXTENDS Integers, Sequences, FiniteSets, TLC

VARIABLES
    op,         \* the operation the program is running
    args,       \* its arguments; for the withdraw workflow, its locals
                \* `addresses`, `currencies`, `ccy`, `chain`, `min_fee`
    pc,         \* position inside the operation
    tries,      \* attempts left of every retry-wrapped function
    faults,     \* transient faults the exchange has produced so far
    prices,     \* get_total_balances: local `prices`
    balances,   \* get_total_balances / get_all_subs_balance: local `balances`
    sub_list,   \* get_all_subs_balance: local `sub_list`
    sub,        \* get_all_subs_balance: position of `for sub in sub_list`
    balance,    \* get_sub_balance: local `balance`
    outcome,    \* how the operation ended: returned value or raised error
    listed,     \* how many sub-accounts the latest sub-account list call gave
    requests,   \* get_total_balances with an endpoint down: REST calls made
                \* so far, per endpoint
    down,       \* the REST endpoints that raise at every call
    runs,       \* how many times the body of the operation has started
    calls,      \* funds_transfer / withdrawal calls of this invocation, with
                \* the exchange's answers, oldest first (of the calls of a
                \* failed attempt only the answers are kept)
    trans_ids,  \* transfer_from_sub: local `trans_ids`
    amt,        \* transfer_from_trading / withdraw: local `amt`
    min_fee,    \* withdraw: local `min_fee`
    wallet,     \* batch loop: position of `for wallet in addresses`
    amount,     \* batch loop: local `amount`
    delay,      \* batch loop: local `delay`
    log,        \* batch loop: what it did so far, oldest first
    parsed,     \* read_config: the `okx` mapping of the YAML file
    okx_config, \* the OkxConfig that read_config built
    stage,      \* withdraw workflow: which statement of main.py made the
                \* latest transfer call ("" when the latest one made none)
    threads,    \* check_proxies: local `threads`, the state of each thread
    valid       \* check_proxies: local `valid`

aggVars == <<prices, balances, sub_list, sub, listed, requests>>

xferVars == <<calls, trans_ids, amt, min_fee>>

batchVars == <<wallet, amount, delay, log>>

confVars == <<parsed, okx_config>>

proxyVars == <<threads, valid>>

vars == <<op, args, pc, tries, faults, down, runs, balance, outcome, aggVars,
          xferVars, batchVars, confVars, stage, proxyVars>>

-----------------------------------------------------------------------------
(* Bounds of the model *)

MaxBal == 1        \* largest available balance of one ledger line
MaxSubs == 1       \* most sub-accounts the exchange lists
MaxFaults == 1     \* most transient faults in one run
MaxCfg == 3        \* largest number of the configuration file, in 1/Denom
Denom == 2         \* numbers of the configuration file are counted in 1/Denom
Grain == 2         \* random.uniform gives Grain + 1 points of its range
MaxAddrs == 2      \* most destination addresses of a batch
MaxProxies == 2    \* most candidates handed to check_proxies

(* Program constants *)

Tries == 5         \* @retry(tries=5, ...)

Ccys == {"USDT", "ETH"}

-----------------------------------------------------------------------------
(* Python values *)

EmptyDict == [c \in {} |-> 0]

None == [none |-> TRUE, d |-> EmptyDict]

Some(d) == [none |-> FALSE, d |-> d]

\* dict.get(k, default)
Get(d, k, default) == IF k \in DOMAIN d THEN d[k] ELSE default

\* A Balance Snapshot as one REST call returns it: the lines of one ledger,
\* {asset['ccy']: float(asset['availBal']) for asset in data}
Snapshots ==
    UNION {[S -> 0..MaxBal] : S \in {T \in SUBSET Ccys : Cardinality(T) <= 1}}

\* An entry of balances['total']: the raw float, or {'balance':, 'usd':}
Raw(x) == [valued |-> FALSE, balance |-> x, usd |-> 0]

Valued(x, u) == [valued |-> TRUE, balance |-> x, usd |-> u]

\* An optional number: None, or the number
NoNum == [none |-> TRUE, v |-> 0]

Num(x) == [none |-> FALSE, v |-> x]

\* Mutant of Falsy: only None is falsy, as `if x is None` would have it
FalsyNoneOnly(x) == x.none

\* `not x` of an optional number: None and 0 are falsy
Falsy(x) == x.none \/ x.v = 0


-----------------------------------------------------------------------------
(* The retry decorator: the body runs again until it returns or the tries  *)
(* are used up; then the last error goes to the caller.                    *)

TriesInit ==
    [get_assets_prices |-> Tries, get_currencies |-> Tries,
     get_sub_list |-> Tries, get_sub_balance |-> Tries,
     get_all_subs_balance |-> Tries, transfer_from_sub |-> Tries,
     get_total_balances |-> Tries, transfer_from_trading |-> Tries,
     withdraw |-> Tries]

\* An error raised inside the frames `chain` (innermost first): the first
\* frame with a try left runs its body again, frames without one pass the
\* error on; "caller" when the outermost frame passes it on. The counter of
\* an inner frame that passed the error on starts anew at its next call.
RECURSIVE UnwindExtra(_, _)
\* Mutant of Unwind: a frame runs its body once more than `tries`
UnwindExtra(chain, t) ==
    IF chain = <<>> THEN [tries |-> t, frame |-> "caller"]
    ELSE LET f == Head(chain)
             t1 == [t EXCEPT ![f] = @ - 1]
         IN  IF t1[f] >= 0 THEN [tries |-> t1, frame |-> f]
             ELSE IF Tail(chain) = <<>> THEN [tries |-> t1, frame |-> "caller"]
             ELSE UnwindExtra(Tail(chain), [t1 EXCEPT ![f] = Tries])

RECURSIVE Unwind(_, _)
Unwind(chain, t) ==
    IF chain = <<>> THEN [tries |-> t, frame |-> "caller"]
    ELSE LET f == Head(chain)
             t1 == [t EXCEPT ![f] = @ - 1]
         IN  IF t1[f] > 0 THEN [tries |-> t1, frame |-> f]
             ELSE IF Tail(chain) = <<>> THEN [tries |-> t1, frame |-> "caller"]
             ELSE Unwind(Tail(chain), [t1 EXCEPT ![f] = Tries])

-----------------------------------------------------------------------------
(* Balance Aggregator: pure parts *)

NoBalance == [funding |-> None, trading |-> None]

FreshBalances == [total |-> EmptyDict, subs |-> None, main |-> NoBalance]

\* Mutant of AddTo: every line overwrites the running total
AddToAssign(total, snap) ==
    [c \in DOMAIN total \cup DOMAIN snap |->
        IF c \in DOMAIN snap THEN Raw(snap[c]) ELSE total[c]]

\* for ccy, avail_bal in snap.items():
\*     if total.get(ccy): total[ccy] += avail_bal
\*     else:              total[ccy] = avail_bal
AddTo(total, snap) ==
    [c \in DOMAIN total \cup DOMAIN snap |->
        IF c \in DOMAIN snap
        THEN IF c \in DOMAIN total /\ total[c].balance # 0
             THEN Raw(total[c].balance + snap[c])
             ELSE Raw(snap[c])
        ELSE total[c]]

\* The loop of get_all_subs_balance over balances['subs'].items(), in the
\* order of sub_list. balance.get('trading', {}) is None in funding-only
\* mode (the key is there), and None.items() raises AttributeError.
RECURSIVE SumSubs(_, _, _)
SumSubs(subs, names, total) ==
    IF names = <<>> THEN [raised |-> FALSE, total |-> total]
    ELSE LET b == subs[Head(names)]
             t1 == AddTo(total, b.funding.d)
         IN  IF b.trading.none THEN [raised |-> TRUE, total |-> t1]
             ELSE SumSubs(subs, Tail(names), AddTo(t1, b.trading.d))

\* balances['total'][asset] = {'balance': balance,
\*                             'usd': balance * prices.get(asset, 0)}
Valuation(total, pr) ==
    [c \in DOMAIN total |->
        Valued(total[c].balance, total[c].balance * Get(pr, c, 0))]

\* get_assets_prices: tickers whose instId ends with USDT, keyed by the
\* part of instId before the dash. A ticker is <<base, quote, last>>.
Quotes == {"USDT", "BTC"}

Tickers == {t \in Ccys \X Quotes \X (1..2) : t[1] # t[2]}

TickerData == {T \in SUBSET Tickers : Cardinality(T) <= 1}

PricesOf(data) ==
    LET usdt == {t \in data : t[2] = "USDT"}
    IN  [c \in {t[1] : t \in usdt} |-> (CHOOSE t \in usdt : t[1] = c)[3]]

\* The 'data' of an account-balance call: no line at all, or one line whose
\* 'details' are the ledger's lines.
TradingData == {None} \cup {Some(s) : s \in Snapshots}

\* The sub-accounts of the exchange are numbered; the odd-numbered ones are
\* barred from transferring out
CanTransOut(s) == s % 2 = 0

\* The 'data' of a sub-account list call
SubLists ==
    {[i \in 1..n |-> [subAcct |-> i, canTransOut |-> CanTransOut(i)]] :
        n \in 0..MaxSubs}

\* get_sub_list, lines 128-135: can_trans_out is "None", "True" or "False"
SubNames(data, can_trans_out) ==
    LET kept == IF can_trans_out = "None" THEN data
                ELSE SelectSeq(data, LAMBDA x :
                        x.canTransOut = (can_trans_out = "True"))
    IN  [i \in DOMAIN kept |-> kept[i].subAcct]

-----------------------------------------------------------------------------
(* Balance Aggregator: get_total_balances and what it calls *)

NoOutcome == [kind |-> "none", err |-> "", value |-> None]

Returned(v) == [kind |-> "return", err |-> "", value |-> v]

Raised(e) == [kind |-> "raise", err |-> e, value |-> None]

\* Mutant of Frames: only get_total_balances retries
FramesOuterOnly(p) == <<"get_total_balances">>

\* The frames around each position of get_total_balances, innermost first.
Frames(p) ==
    CASE p = "get_assets_prices" ->
            <<"get_assets_prices", "get_total_balances">>
      [] p = "get_sub_list" ->
            <<"get_sub_list", "get_all_subs_balance", "get_total_balances">>
      [] p \in {"sub_funding", "sub_trading"} ->
            <<"get_sub_balance", "get_all_subs_balance", "get_total_balances">>
      [] p = "sum_subs" -> <<"get_all_subs_balance", "get_total_balances">>
      [] OTHER -> <<"get_total_balances">>

\* The REST endpoint called at each position
Endpoint(p) ==
    CASE p = "get_assets_prices" -> "get_tickers"
      [] p = "get_sub_list" -> "get_subaccount_list"
      [] p = "sub_funding" -> "get_funding_balance"
      [] p = "sub_trading" -> "sub.get_account_balance"
      [] p \in {"main_funding", "get_balances"} -> "get_balances"
      [] p \in {"main_trading", "get_account_balance"} ->
            "account.get_account_balance"
      [] p \in {"funding_leg", "trading_leg", "funds_transfer"} ->
            "funds_transfer"
      [] p = "get_currencies" -> "get_currencies"
      [] p = "withdrawal" -> "withdrawal"
      [] OTHER -> ""

\* The endpoints get_total_balances calls
AggEndpoints ==
    {"get_tickers", "get_subaccount_list", "get_funding_balance",
     "sub.get_account_balance", "get_balances", "account.get_account_balance"}

NoRequests == [e \in AggEndpoints |-> 0]

\* The call at position pc answers
Answers == Endpoint(pc) \notin down

\* The call at position pc raises: the endpoint is down, or, in a run
\* without an outage, a transient fault
Fails ==
    IF Endpoint(pc) \in down THEN UNCHANGED faults
    ELSE down = {} /\ faults < MaxFaults /\ faults' = faults + 1

\* get_total_balances makes the call at position pc; the calls are counted
\* in the runs that have an endpoint down
Request ==
    requests' = IF down = {} THEN requests
                ELSE [requests EXCEPT ![Endpoint(pc)] = @ + 1]

\* An error at position pc: the frame that has a try left starts again with
\* fresh locals; with none left the error reaches the caller.
AggFail(err) ==
    LET u == Unwind(Frames(pc), tries)
        f == u.frame
        outer == {"get_all_subs_balance", "get_total_balances", "caller"}
    IN  /\ tries' = u.tries
        /\ pc' = CASE f = "get_assets_prices" -> "get_assets_prices"
                   [] f = "get_sub_list" -> "get_sub_list"
                   [] f = "get_sub_balance" -> "sub_funding"
                   [] f = "get_all_subs_balance" -> "get_sub_list"
                   [] f = "get_total_balances" -> "get_total_balances"
                   [] OTHER -> "done"
        /\ prices' = IF f \in {"get_total_balances", "caller"} THEN None
                     ELSE prices
        /\ balances' = IF f \in outer THEN FreshBalances ELSE balances
        /\ sub_list' = IF f \in outer THEN <<>> ELSE sub_list
        /\ sub' = IF f \in outer THEN 0 ELSE sub
        /\ balance' = IF f \in {"get_sub_list", "get_assets_prices"}
                      THEN balance ELSE NoBalance
        /\ outcome' = IF f = "caller" THEN Raised(err) ELSE outcome

AfterPrices ==
    IF args.with_sub_accounts THEN "get_sub_list" ELSE "main_funding"

\* lines 290-292: one attempt of the body starts
GetTotalBalances ==
    /\ UNCHANGED <<xferVars, batchVars, confVars>>
    /\ op = "get_total_balances" /\ pc = "get_total_balances"
    /\ pc' = IF args.usd_eq THEN "get_assets_prices" ELSE AfterPrices
    /\ runs' = runs + 1
    /\ UNCHANGED <<op, args, stage, proxyVars, down, tries, faults, prices,
                   balances, sub_list, sub, balance, outcome, listed,
                   requests>>

\* lines 76-85, then 293-298
GetAssetsPrices ==
    /\ UNCHANGED <<xferVars, batchVars, confVars>>
    /\ op = "get_total_balances" /\ pc = "get_assets_prices"
    /\ Answers /\ Request
    /\ \E data \in TickerData : prices' = Some(PricesOf(data))
    /\ tries' = [tries EXCEPT !.get_assets_prices = Tries]
    /\ pc' = AfterPrices
    /\ UNCHANGED <<op, args, stage, proxyVars, down, runs, faults, balances,
                   sub_list, sub, balance, outcome, listed>>

\* lines 116-135 and 184-191
GetSubList ==
    /\ UNCHANGED <<xferVars, batchVars, confVars>>
    /\ op = "get_total_balances" /\ pc = "get_sub_list"
    /\ Answers /\ Request
    /\ \E data \in SubLists :
        LET l == SubNames(data, "None")
        IN  /\ sub_list' = l
            /\ balances' = [balances EXCEPT !.subs =
                   Some([s \in {l[i] : i \in DOMAIN l} |-> NoBalance])]
            /\ sub' = IF l = <<>> THEN 0 ELSE 1
            /\ pc' = IF l = <<>> THEN "sum_subs" ELSE "sub_funding"
            /\ listed' = Len(data)
    /\ tries' = [tries EXCEPT !.get_sub_list = Tries]
    /\ UNCHANGED <<op, args, stage, proxyVars, down, runs, faults, prices,
                   balance, outcome>>

\* get_sub_balance returns `b`: lines 193-195 store it and go on
StoreSubBalance(b) ==
    /\ balances' = [balances EXCEPT
          !.subs = Some([balances.subs.d EXCEPT ![sub_list[sub]] = b])]
    /\ balance' = NoBalance
    /\ tries' = [tries EXCEPT !.get_sub_balance = Tries]
    /\ sub' = IF sub < Len(sub_list) THEN sub + 1 ELSE 0
    /\ pc' = IF sub < Len(sub_list) THEN "sub_funding" ELSE "sum_subs"

\* lines 149-159
GetSubFunding ==
    /\ UNCHANGED <<xferVars, batchVars, confVars>>
    /\ op = "get_total_balances" /\ pc = "sub_funding"
    /\ Answers /\ Request
    /\ \E snap \in Snapshots :
        LET b == [funding |-> Some(snap), trading |-> None]
        IN  IF args.only_funding
            THEN StoreSubBalance(b)
            ELSE /\ balance' = b
                 /\ pc' = "sub_trading"
                 /\ UNCHANGED <<balances, tries, sub>>
    /\ UNCHANGED <<op, args, stage, proxyVars, down, runs, faults, prices,
                   sub_list, outcome, listed>>

\* lines 161-170
GetSubTrading ==
    /\ UNCHANGED <<xferVars, batchVars, confVars>>
    /\ op = "get_total_balances" /\ pc = "sub_trading"
    /\ Answers /\ Request
    /\ \E data \in TradingData :
        StoreSubBalance([balance EXCEPT
            !.trading = IF data.none THEN Some(EmptyDict) ELSE data])
    /\ UNCHANGED <<op, args, stage, proxyVars, down, runs, faults, prices,
                   sub_list, outcome, listed>>

\* lines 197-215: the sums of get_all_subs_balance, and its return
SumSubsBalances ==
    /\ UNCHANGED <<xferVars, batchVars, confVars>>
    /\ op = "get_total_balances" /\ pc = "sum_subs"
    /\ LET r == SumSubs(balances.subs.d, sub_list, balances.total)
       IN  IF r.raised
           THEN AggFail("AttributeError")
           ELSE /\ balances' = [balances EXCEPT !.total = r.total]
                /\ tries' = [tries EXCEPT !.get_all_subs_balance = Tries]
                /\ pc' = "main_funding"
                /\ UNCHANGED <<prices, sub_list, sub, balance, outcome>>
    /\ UNCHANGED <<op, args, stage, proxyVars, down, runs, faults, listed,
                   requests>>

\* get_total_balances returns `b`
AggReturn(b) ==
    /\ balances' = b
    /\ outcome' = Returned(b)
    /\ pc' = "done"
    /\ UNCHANGED tries

\* lines 300-324
MainFunding ==
    /\ UNCHANGED <<xferVars, batchVars, confVars>>
    /\ op = "get_total_balances" /\ pc = "main_funding"
    /\ Answers /\ Request
    /\ \E snap \in Snapshots :
        LET total == AddTo(balances.total, snap)
            b == [balances EXCEPT
                    !.main = [funding |-> Some(snap), trading |-> None],
                    !.total = total]
        IN  IF args.only_funding
            THEN AggReturn([b EXCEPT !.total =
                    IF args.usd_eq THEN Valuation(total, prices.d) ELSE total])
            ELSE /\ balances' = b
                 /\ pc' = "main_trading"
                 /\ UNCHANGED <<tries, outcome>>
    /\ UNCHANGED <<op, args, stage, proxyVars, down, runs, faults, prices,
                   sub_list, sub, balance, listed>>

\* lines 326-351
MainTrading ==
    /\ UNCHANGED <<xferVars, batchVars, confVars>>
    /\ op = "get_total_balances" /\ pc = "main_trading"
    /\ Answers /\ Request
    /\ \E data \in TradingData :
        IF data.none
        THEN AggReturn([balances EXCEPT !.main.trading = Some(EmptyDict)])
        ELSE LET total == AddTo(balances.total, data.d)
             IN  AggReturn([balances EXCEPT
                    !.main.trading = data,
                    !.total = IF args.usd_eq THEN Valuation(total, prices.d)
                              ELSE total])
    /\ UNCHANGED <<op, args, stage, proxyVars, down, runs, faults, prices,
                   sub_list, sub, balance, listed>>

\* A REST call of the aggregator raises: a network error, or a response
\* without 'data'.
AggApiFault ==
    /\ UNCHANGED <<xferVars, batchVars, confVars>>
    /\ op = "get_total_balances"
    /\ pc \in {"get_assets_prices", "get_sub_list", "sub_funding",
               "sub_trading", "main_funding", "main_trading"}
    /\ Fails /\ Request
    /\ AggFail("Exception")
    /\ UNCHANGED <<op, args, stage, proxyVars, down, runs, listed>>

\* The state of the parts an operation does not use
IdleAgg ==
    /\ prices = None
    /\ balances = FreshBalances
    /\ sub_list = <<>>
    /\ sub = 0
    /\ listed = 0
    /\ requests = NoRequests

IdleXfer ==
    /\ calls = <<>>
    /\ trans_ids = <<>>
    /\ amt = NoNum
    /\ min_fee = NoNum

IdleBatch ==
    /\ wallet = 0
    /\ amount = 0
    /\ delay = 0
    /\ log = <<>>

IdleConf ==
    /\ parsed = <<>>
    /\ okx_config = <<>>

IdleFlow == stage = ""

IdleProxies ==
    /\ threads = <<>>
    /\ valid = <<>>

InitAggregate ==
    /\ op = "get_total_balances"
    /\ args \in [usd_eq : BOOLEAN, with_sub_accounts : BOOLEAN,
                 only_funding : BOOLEAN]
    /\ pc = "get_total_balances"
    /\ tries = TriesInit
    /\ faults = 0
    /\ down \in {{}} \cup {{e} : e \in {"get_tickers", "get_subaccount_list"}}
    /\ runs = 0
    /\ balance = NoBalance
    /\ outcome = NoOutcome
    /\ IdleAgg /\ IdleXfer /\ IdleBatch /\ IdleConf
    /\ IdleFlow /\ IdleProxies

NextAggregate ==
    \/ GetTotalBalances
    \/ GetAssetsPrices
    \/ GetSubList
    \/ GetSubFunding
    \/ GetSubTrading
    \/ SumSubsBalances
    \/ MainFunding
    \/ MainTrading
    \/ AggApiFault

SpecAggregate == InitAggregate /\ [][NextAggregate]_vars

-----------------------------------------------------------------------------
(* The exchange's answers to funds_transfer and withdrawal *)

\* A response: Python None (no response at all), or the parsed JSON with its
\* 'code' and its 'data' records (a record is its transId / wdId)
NoResponse == [none |-> TRUE, code |-> "", data |-> <<>>]

Ok(id) == [none |-> FALSE, code |-> "0", data |-> <<id>>]

Empty == [none |-> FALSE, code |-> "0", data |-> <<>>]

Rejected == [none |-> FALSE, code |-> "58350", data |-> <<>>]

\* The call raised instead of answering (a network error)
NoAnswer == [none |-> TRUE, code |-> "raised", data |-> <<>>]

\* The exchange numbers its records: the next identifier is fresh
Responses == {Ok(Len(calls) + 1), Empty, Rejected}

Succeeded(resp) == ~resp.none /\ resp.code = "0" /\ resp.data # <<>>

\* The attempt of the retry-wrapped function f that is running
Attempt(f) == Tries - tries[f] + 1

\* main.py, lines 107-111: the balances of the sub-account the workflow's
\* loop is at, as the aggregated snapshot shows them
SubBalance == balances.subs.d[sub_list[sub]]

\* The arguments of the running transfer call. The workflow passes
\*   line 115: transfer_from_sub(sub_name, ccy, amt=funding_bal,
\*                               from_trading=False, to_trading=False)
\*   line 121: transfer_from_sub(sub_name, ccy, amt=funding_bal,
\*                               from_trading=True, to_trading=False)
\*   line 130: transfer_from_trading(ccy, balance)
XferArgs ==
    IF op # "batch" THEN args
    ELSE IF stage = "funding_of_sub"
    THEN [ccy |-> args.ccy, amt |-> Num(Get(SubBalance.funding.d, args.ccy, 0)),
          from_trading |-> "False", to_trading |-> FALSE]
    ELSE IF stage = "trading_of_sub"
    THEN [ccy |-> args.ccy, amt |-> Num(Get(SubBalance.funding.d, args.ccy, 0)),
          from_trading |-> "True", to_trading |-> FALSE]
    ELSE [ccy |-> args.ccy,
          amt |-> Num(Get(balances.main.trading.d, args.ccy, 0))]

\* funds_transfer(ccy, amt, from_, to, type, subAcct) and its answer
Transfer(f, a, from, to, resp) ==
    [api |-> "funds_transfer", attempt |-> Attempt(f), ccy |-> XferArgs.ccy,
     amt |-> a, from |-> from, to |-> to, resp |-> resp]

\* Of the calls of an attempt that failed only the answers are kept
Past(cs) ==
    [i \in DOMAIN cs |->
        [api |-> cs[i].api, attempt |-> cs[i].attempt, resp |-> cs[i].resp]]

\* _fetch_trans_id: the error it raises ("" for none) and the id it returns
FetchTransId(response) ==
    IF response.none THEN [raise |-> "", id |-> NoNum]
    ELSE IF response.code # "0" THEN [raise |-> "Exception", id |-> NoNum]
    ELSE IF response.data = <<>>
         THEN [raise |-> "BrokenResponseError", id |-> NoNum]
    ELSE [raise |-> "", id |-> Num(response.data[1])]

-----------------------------------------------------------------------------
(* Fund Router: transfer_from_sub *)

\* What the router returns: None, one transId, or a list of them
NoneValue == [shape |-> "None", ids |-> <<>>]

StrValue(id) == IF id.none THEN NoneValue ELSE [shape |-> "str", ids |-> <<id>>]

ListValue(ids) == [shape |-> "list", ids |-> ids]

\* to_account: 6 = funding, 18 = trading
ToAccount == IF XferArgs.to_trading THEN 18 ELSE 6

\* The inner functions transfer_from_funding / transfer_from_trading end
\* after the funds_transfer call without a return statement: their value is
\* None whatever the exchange answered.
InnerReturn(resp) == NoResponse

\* balance.get(ledger, {}).get(ccy, amt): with amt given `balance` is {} and
\* the amount is amt; else it is the fetched balance of the currency, or
\* None where the snapshot has no such line.
LegAmount(ledger) ==
    IF ~XferArgs.amt.none THEN XferArgs.amt
    ELSE IF XferArgs.ccy \in DOMAIN balance[ledger].d
         THEN Num(balance[ledger].d[XferArgs.ccy])
         ELSE XferArgs.amt

FirstLeg == IF XferArgs.from_trading = "True" THEN "trading_leg" ELSE "funding_leg"

\* lines 262-266
RECURSIVE RemoveNone(_)
RemoveNone(ids) ==
    IF ids = <<>> THEN <<>>
    ELSE IF Head(ids).none THEN Tail(ids)
    ELSE <<Head(ids)>> \o RemoveNone(Tail(ids))

TransIds(ids) ==
    IF \A i \in DOMAIN ids : ids[i].none THEN NoneValue
    ELSE ListValue(RemoveNone(ids))

\* An error inside the router, `cs` being the calls issued so far: the frame
\* with a try left starts again
XferFail(chain, err, cs) ==
    LET u == Unwind(chain, tries)
        f == u.frame
    IN  /\ tries' = u.tries
        /\ calls' = IF f \in {"get_sub_balance", "caller"} THEN cs
                    ELSE Past(cs)
        /\ pc' = CASE f = "get_sub_balance" -> "sub_funding"
                   [] f = "transfer_from_sub" -> "transfer_from_sub"
                   [] f = "transfer_from_trading" -> "transfer_from_trading"
                   [] OTHER -> "done"
        /\ balance' = NoBalance
        /\ trans_ids' = IF f = "get_sub_balance" THEN trans_ids ELSE <<>>
        /\ amt' = NoNum
        /\ outcome' = IF f = "caller" THEN Raised(err) ELSE outcome

\* The statement of the workflow that follows the call made at `stage`
AfterCall ==
    CASE stage = "funding_of_sub" -> "if_trading"
      [] stage = "trading_of_sub" -> "for_sub"
      [] OTHER -> "loop"

\* The call ends with the value v, which the workflow does not keep
XferEnd(v) ==
    IF op = "batch"
    THEN pc' = AfterCall /\ UNCHANGED outcome
    ELSE pc' = "done" /\ outcome' = Returned(v)

XferReturn(v) ==
    /\ XferEnd(v)
    /\ UNCHANGED tries

\* lines 229-239: one attempt of the body starts
TransferFromSub ==
    /\ op \in {"transfer_from_sub", "batch"} /\ pc = "transfer_from_sub"
    /\ pc' = IF XferArgs.amt.none THEN "sub_funding" ELSE FirstLeg
    /\ runs' = runs + 1
    /\ UNCHANGED <<op, args, stage, proxyVars, down, tries, faults, balance,
                   outcome, aggVars, xferVars, batchVars, confVars>>

\* get_sub_balance, lines 149-159, with only_funding = (from_trading is False)
XferSubFunding ==
    /\ op \in {"transfer_from_sub", "batch"} /\ pc = "sub_funding"
    /\ Answers
    /\ \E snap \in Snapshots :
        balance' = [funding |-> Some(snap), trading |-> None]
    /\ IF XferArgs.from_trading = "False"
       THEN /\ pc' = FirstLeg
            /\ tries' = [tries EXCEPT !.get_sub_balance = Tries]
       ELSE /\ pc' = "sub_trading"
            /\ UNCHANGED tries
    /\ UNCHANGED <<op, args, stage, proxyVars, down, runs, faults, outcome,
                   aggVars, xferVars, batchVars, confVars>>

\* get_sub_balance, lines 161-170
XferSubTrading ==
    /\ op \in {"transfer_from_sub", "batch"} /\ pc = "sub_trading"
    /\ Answers
    /\ \E data \in TradingData :
        balance' = [balance EXCEPT
            !.trading = IF data.none THEN Some(EmptyDict) ELSE data]
    /\ pc' = FirstLeg
    /\ tries' = [tries EXCEPT !.get_sub_balance = Tries]
    /\ UNCHANGED <<op, args, stage, proxyVars, down, runs, faults, outcome,
                   aggVars, xferVars, batchVars, confVars>>

\* One leg has ended with the result `r` of _fetch_trans_id, `cs` being the
\* calls issued so far: lines 257-275
LegDone(r, cs) ==
    IF r.raise # "" THEN XferFail(<<"transfer_from_sub">>, r.raise, cs)
    ELSE IF XferArgs.from_trading = "None" /\ pc = "funding_leg"
    THEN /\ trans_ids' = <<r.id>>
         /\ pc' = "trading_leg"
         /\ calls' = cs
         /\ UNCHANGED <<tries, balance, amt, outcome>>
    ELSE /\ XferReturn(IF XferArgs.from_trading = "None"
                       THEN TransIds(trans_ids \o <<r.id>>)
                       ELSE StrValue(r.id))
         /\ calls' = cs
         /\ UNCHANGED <<balance, trans_ids, amt>>

\* The leg at `pc` moving from the ledger `from` (6 funding, 18 trading)
Leg(ledger, from) ==
    LET a == LegAmount(ledger)
    IN  IF Falsy(a)
        THEN LegDone(FetchTransId(NoResponse), calls)
        ELSE Answers /\ \E resp \in Responses :
             LegDone(FetchTransId(InnerReturn(resp)),
                     Append(calls, Transfer("transfer_from_sub", a.v, from,
                                            ToAccount, resp)))

\* lines 248-254 and 259
FundingLeg ==
    /\ op \in {"transfer_from_sub", "batch"} /\ pc = "funding_leg"
    /\ Leg("funding", 6)
    /\ UNCHANGED <<op, args, stage, proxyVars, down, runs, faults, min_fee,
                   aggVars, batchVars, confVars>>

\* lines 241-246 and 260
TradingLeg ==
    /\ op \in {"transfer_from_sub", "batch"} /\ pc = "trading_leg"
    /\ Leg("trading", 18)
    /\ UNCHANGED <<op, args, stage, proxyVars, down, runs, faults, min_fee,
                   aggVars, batchVars, confVars>>

\* A REST call of transfer_from_sub raises
XferSubFault ==
    /\ op \in {"transfer_from_sub", "batch"}
    /\ Fails
    /\ \/ /\ pc \in {"sub_funding", "sub_trading"}
          /\ XferFail(<<"get_sub_balance", "transfer_from_sub">>, "Exception",
                      calls)
       \/ /\ pc = "funding_leg" /\ ~Falsy(LegAmount("funding"))
          /\ XferFail(<<"transfer_from_sub">>, "Exception",
                Append(calls, Transfer("transfer_from_sub",
                    LegAmount("funding").v, 6, ToAccount, NoAnswer)))
       \/ /\ pc = "trading_leg" /\ ~Falsy(LegAmount("trading"))
          /\ XferFail(<<"transfer_from_sub">>, "Exception",
                Append(calls, Transfer("transfer_from_sub",
                    LegAmount("trading").v, 18, ToAccount, NoAnswer)))
    /\ UNCHANGED <<op, args, stage, proxyVars, down, runs, min_fee, aggVars,
                   batchVars, confVars>>

\* Amounts a caller passes: None, or a number
Amts == {NoNum} \cup {Num(x) : x \in 0..MaxBal}

InitTransferFromSub ==
    /\ op = "transfer_from_sub"
    /\ args \in [ccy : Ccys, amt : Amts,
                 from_trading : {"None", "True", "False"},
                 to_trading : BOOLEAN]
    /\ pc = "transfer_from_sub"
    /\ tries = TriesInit
    /\ faults = 0
    /\ down \in {{}} \cup {{e} : e \in {"get_funding_balance",
                                        "sub.get_account_balance",
                                        "funds_transfer"}}
    /\ runs = 0
    /\ balance = NoBalance
    /\ outcome = NoOutcome
    /\ IdleAgg /\ IdleXfer /\ IdleBatch /\ IdleConf
    /\ IdleFlow /\ IdleProxies

-----------------------------------------------------------------------------
(* Fund Router: transfer_from_trading *)

\* lines 361 and 370-371: one attempt of the body starts
TransferFromTrading ==
    /\ op \in {"transfer_from_trading", "batch"} /\ pc = "transfer_from_trading"
    /\ amt' = XferArgs.amt
    /\ IF XferArgs.amt.none
       THEN pc' = "get_account_balance" /\ UNCHANGED outcome
       ELSE IF Falsy(XferArgs.amt)
       THEN XferEnd(NoneValue)
       ELSE pc' = "funds_transfer" /\ UNCHANGED outcome
    /\ runs' = runs + 1
    /\ UNCHANGED <<op, args, stage, proxyVars, down, tries, faults, balance,
                   calls, trans_ids, min_fee, aggVars, batchVars, confVars>>

\* lines 362-371
MainTradingBalance ==
    /\ op \in {"transfer_from_trading", "batch"} /\ pc = "get_account_balance"
    /\ Answers
    /\ \E data \in TradingData :
        IF data.none
        THEN XferEnd(NoneValue) /\ UNCHANGED amt
        ELSE LET a == Num(Get(data.d, XferArgs.ccy, 0))
             IN  /\ amt' = a
                 /\ IF Falsy(a)
                    THEN XferEnd(NoneValue)
                    ELSE pc' = "funds_transfer" /\ UNCHANGED outcome
    /\ UNCHANGED <<op, args, stage, proxyVars, down, runs, tries, faults,
                   balance, calls, trans_ids, min_fee, aggVars, batchVars,
                   confVars>>

\* lines 373-376
FundsTransfer ==
    /\ op \in {"transfer_from_trading", "batch"} /\ pc = "funds_transfer"
    /\ Answers
    /\ \E resp \in Responses :
        LET r == FetchTransId(resp)
            cs == Append(calls,
                     Transfer("transfer_from_trading", amt.v, 18, 6, resp))
        IN  IF r.raise # ""
            THEN XferFail(<<"transfer_from_trading">>, r.raise, cs)
            ELSE /\ XferReturn(StrValue(r.id))
                 /\ calls' = cs
                 /\ UNCHANGED <<balance, trans_ids, amt>>
    /\ UNCHANGED <<op, args, stage, proxyVars, down, runs, faults, min_fee,
                   aggVars, batchVars, confVars>>

\* A REST call of transfer_from_trading raises
XferTradingFault ==
    /\ op \in {"transfer_from_trading", "batch"}
    /\ Fails
    /\ \/ /\ pc = "get_account_balance"
          /\ XferFail(<<"transfer_from_trading">>, "Exception", calls)
       \/ /\ pc = "funds_transfer"
          /\ XferFail(<<"transfer_from_trading">>, "Exception",
                Append(calls, Transfer("transfer_from_trading", amt.v, 18, 6,
                                       NoAnswer)))
    /\ UNCHANGED <<op, args, stage, proxyVars, down, runs, min_fee, aggVars,
                   batchVars, confVars>>

InitTransferFromTrading ==
    /\ op = "transfer_from_trading"
    /\ args \in [ccy : Ccys, amt : Amts]
    /\ pc = "transfer_from_trading"
    /\ tries = TriesInit
    /\ faults = 0
    /\ down \in {{}} \cup {{e} : e \in {"account.get_account_balance",
                                        "funds_transfer"}}
    /\ runs = 0
    /\ balance = NoBalance
    /\ outcome = NoOutcome
    /\ IdleAgg /\ IdleXfer /\ IdleBatch /\ IdleConf
    /\ IdleFlow /\ IdleProxies

InitTransfer == InitTransferFromSub \/ InitTransferFromTrading

NextTransfer ==
    \/ TransferFromSub
    \/ XferSubFunding
    \/ XferSubTrading
    \/ FundingLeg
    \/ TradingLeg
    \/ XferSubFault
    \/ TransferFromTrading
    \/ MainTradingBalance
    \/ FundsTransfer
    \/ XferTradingFault

SpecTransfer == InitTransfer /\ [][NextTransfer]_vars

-----------------------------------------------------------------------------
(* Configuration: read_config and the draws of OkxConfig (src/config.py) *)

\* A number of the YAML file is a whole count `n` of 1/Denom, negative or
\* not, an int or a float; an int is a multiple of Denom.
Numbers ==
    {x \in [float : BOOLEAN, n : (-MaxCfg)..MaxCfg] :
        ~x.float => x.n % Denom = 0}

\* The value of the key `amounts` or `delays`: a scalar or a list of two
Scalar(x) == [list |-> FALSE, v |-> <<x>>]

List(x, y) == [list |-> TRUE, v |-> <<x, y>>]

Settings ==
    {Scalar(x) : x \in Numbers} \cup {List(x, y) : x \in Numbers, y \in Numbers}

\* float(v): the same value as a float
ToFloat(x) == [float |-> TRUE, n |-> x.n]

\* Mutant of ToInt: rounds up
ToIntUp(x) == [float |-> FALSE, n |-> ((x.n + Denom - 1) \div Denom) * Denom]

\* int(v): the fraction is cut off, towards zero
ToInt(x) ==
    [float |-> FALSE,
     n |-> IF x.n >= 0 THEN (x.n \div Denom) * Denom
           ELSE 0 - ((0 - x.n) \div Denom) * Denom]

\* lines 46-48
Amounts(amounts) ==
    IF ~amounts.list THEN <<ToFloat(amounts.v[1]), ToFloat(amounts.v[1])>>
    ELSE amounts.v

\* lines 50-52
Delays(delays) ==
    IF ~delays.list THEN <<ToInt(delays.v[1]), ToInt(delays.v[1])>>
    ELSE delays.v

\* random.uniform(a, b) is a + (b - a) * random(): the values it can give,
\* counted in 1/(Denom * Grain), at Grain + 1 evenly spaced points
Uniform(a, b) == {a.n * Grain + (b.n - a.n) * k : k \in 0..Grain}

\* random.randint(a, b) raises ValueError for a bound that is not integral
\* and for an empty range
RandIntRaises(a, b) == a.n % Denom # 0 \/ b.n % Denom # 0 \/ a.n > b.n

\* random.randint(a, b): the values it can give, counted in 1/Denom
RandInt(a, b) == {n \in a.n..b.n : n % Denom = 0}

\* read_config, lines 39-74
ReadConfig ==
    /\ op = "config" /\ pc = "read_config"
    /\ okx_config' = [amounts |-> Amounts(parsed.amounts),
                      delays |-> Delays(parsed.delays)]
    /\ pc' = "amount"
    /\ UNCHANGED <<op, args, stage, proxyVars, down, runs, tries, faults,
                   balance, outcome, parsed, aggVars, xferVars, batchVars>>

\* OkxConfig.amount, lines 21-22
Amount ==
    /\ op = "config" /\ pc = "amount"
    /\ amount' \in Uniform(okx_config.amounts[1], okx_config.amounts[2])
    /\ pc' = "delay"
    /\ UNCHANGED <<op, args, stage, proxyVars, down, runs, tries, faults,
                   balance, outcome, aggVars, xferVars, wallet, delay, log,
                   confVars>>

\* OkxConfig.delay, lines 24-25
Delay ==
    /\ op = "config" /\ pc = "delay"
    /\ IF RandIntRaises(okx_config.delays[1], okx_config.delays[2])
       THEN /\ outcome' = Raised("ValueError")
            /\ UNCHANGED delay
       ELSE /\ delay' \in RandInt(okx_config.delays[1], okx_config.delays[2])
            /\ outcome' = Returned(None)
    /\ pc' = "done"
    /\ UNCHANGED <<op, args, stage, proxyVars, down, runs, tries, faults,
                   balance, aggVars, xferVars, wallet, amount, log, confVars>>

InitConfig ==
    /\ op = "config"
    /\ args = <<>>
    /\ pc = "read_config"
    /\ tries = TriesInit
    /\ faults = 0
    /\ down = {}
    /\ runs = 0
    /\ balance = NoBalance
    /\ outcome = NoOutcome
    /\ parsed \in [amounts : Settings, delays : Settings]
    /\ okx_config = <<>>
    /\ IdleAgg /\ IdleXfer /\ IdleBatch
    /\ IdleFlow /\ IdleProxies

NextConfig ==
    \/ ReadConfig
    \/ Amount
    \/ Delay

SpecConfig == InitConfig /\ [][NextConfig]_vars

-----------------------------------------------------------------------------
(* Withdrawal Executor: withdraw, called directly or by the batch loop *)

\* A chain name is the sequence of its parts between dashes:
\* "USDT-ERC20" is <<"USDT", "ERC20">>.
Chains == {"ERC20", "TRC20"}

\* A line of the currency metadata: one chain of the currency
Descriptors ==
    [chain : Chains, canWd : BOOLEAN, canDep : BOOLEAN, minFee : 1..2]

CurrencyData ==
    {<<>>} \cup {<<d>> : d \in Descriptors}
           \cup {<<d, e>> : d \in Descriptors,
                            e \in {x \in Descriptors : x.minFee = 1}}

\* get_currencies, lines 96-114: can_deposit / can_withdraw are "None",
\* "True" or "False"
GetCurrencies(data, can_deposit, can_withdraw) ==
    IF can_withdraw = "None" /\ can_deposit = "None" THEN data
    ELSE LET wd == IF can_withdraw = "None" THEN data
                   ELSE SelectSeq(data,
                            LAMBDA c : c.canWd = (can_withdraw = "True"))
         IN  IF can_deposit = "None" THEN wd
             ELSE SelectSeq(wd, LAMBDA c : c.canDep = (can_deposit = "True"))

\* The arguments of the running withdraw call: the batch loop passes
\* okx.withdraw(wallet, ccy, chain, amount, min_fee)
WdArgs ==
    IF op = "batch"
    THEN [addr |-> args.addresses[wallet], ccy |-> args.ccy,
          chain |-> args.chain, amt |-> Num(amount), min_fee |-> args.min_fee]
    ELSE args

\* Mutant of AttemptAmt: an amount resolved by an earlier attempt is kept
AttemptAmtKept(a) == IF a.none THEN WdArgs.amt ELSE a

\* The parameter amt at the start of an attempt, `a` being the local of the
\* attempt before: the decorator calls the function with the caller's
\* arguments again.
AttemptAmt(a) == WdArgs.amt

\* withdrawal(ccy, amt, dest, toAddr, fee, chain) and its answer
Withdrawal(resp) ==
    [api |-> "withdrawal", attempt |-> Attempt("withdraw"),
     ccy |-> WdArgs.ccy, amt |-> amt.v, dest |-> 4, toAddr |-> WdArgs.addr,
     fee |-> min_fee.v, chain |-> <<WdArgs.ccy>> \o WdArgs.chain,
     resp |-> resp]

\* time.sleep(secs) raises ValueError for a negative length
SleepRaises(secs) == secs < 0

\* Mutant of WdEnd: the loop pauses after a failed withdrawal too
WdEndPauseAlways(result) ==
    IF op = "batch"
    THEN /\ pc' = "loop"
         /\ outcome' = outcome
         /\ log' = IF result.kind = "return"
                   THEN IF SleepRaises(delay)
                        THEN log \o <<[ev |-> "made", addr |-> WdArgs.addr],
                                      [ev |-> "failed", addr |-> WdArgs.addr]>>
                        ELSE log \o <<[ev |-> "made", addr |-> WdArgs.addr],
                                      [ev |-> "sleep", secs |-> delay]>>
                   ELSE log \o <<[ev |-> "failed", addr |-> WdArgs.addr],
                                 [ev |-> "sleep", secs |-> delay]>>
    ELSE /\ pc' = "done"
         /\ outcome' = result
         /\ log' = log

\* Mutant of WdEnd: a failed withdrawal ends the batch
WdEndAbort(result) ==
    IF op = "batch"
    THEN /\ pc' = IF result.kind = "return" THEN "loop" ELSE "done"
         /\ outcome' = outcome
         /\ log' = IF result.kind = "return"
                   THEN IF SleepRaises(delay)
                        THEN log \o <<[ev |-> "made", addr |-> WdArgs.addr],
                                      [ev |-> "failed", addr |-> WdArgs.addr]>>
                        ELSE log \o <<[ev |-> "made", addr |-> WdArgs.addr],
                                      [ev |-> "sleep", secs |-> delay]>>
                   ELSE Append(log, [ev |-> "failed", addr |-> WdArgs.addr])
    ELSE /\ pc' = "done"
         /\ outcome' = result
         /\ log' = log

\* withdraw ends for good: a direct call is over, the batch loop goes on
\* (main.py lines 141-147: log, pause after a success, skip after a failure;
\* the pause is inside the try, so a pause that raises is reported as a
\* failure of the withdrawal that was made)
WdEnd(result) ==
    IF op = "batch"
    THEN /\ pc' = "loop"
         /\ outcome' = outcome
         /\ log' = IF result.kind = "return"
                   THEN IF SleepRaises(delay)
                        THEN log \o <<[ev |-> "made", addr |-> WdArgs.addr],
                                      [ev |-> "failed", addr |-> WdArgs.addr]>>
                        ELSE log \o <<[ev |-> "made", addr |-> WdArgs.addr],
                                      [ev |-> "sleep", secs |-> delay]>>
                   ELSE Append(log, [ev |-> "failed", addr |-> WdArgs.addr])
    ELSE /\ pc' = "done"
         /\ outcome' = result
         /\ log' = log

\* Mutant of WdFail: the error goes to the caller at once
WdFailNoRetry(chain, err, cs) ==
    /\ tries' = tries
    /\ calls' = cs
    /\ WdEnd(Raised(err))

\* An error inside withdraw, `cs` being the calls issued so far: the frame
\* with a try left starts again. When the error is not raised inside
\* get_currencies that call has returned, and its next call has all its
\* tries.
WdFail(chain, err, cs) ==
    LET inner == \E i \in DOMAIN chain : chain[i] = "get_currencies"
        t == IF inner THEN tries
             ELSE [tries EXCEPT !.get_currencies = Tries]
        u == Unwind(chain, t)
        f == u.frame
    IN  /\ tries' = u.tries
        /\ calls' = IF f = "withdraw" THEN Past(cs) ELSE cs
        /\ IF f = "caller" THEN WdEnd(Raised(err))
           ELSE /\ pc' = IF f = "get_currencies" THEN "get_currencies"
                         ELSE "withdraw"
                /\ UNCHANGED <<outcome, log>>

WdNext == IF amt'.none THEN "get_balances" ELSE "withdrawal"

\* lines 390 and 394: one attempt of the body starts
Withdraw ==
    /\ op \in {"withdraw", "batch"} /\ pc = "withdraw"
    /\ min_fee' = WdArgs.min_fee
    /\ amt' = AttemptAmt(amt)
    /\ balance' = NoBalance
    /\ pc' = IF min_fee'.none THEN "get_currencies" ELSE WdNext
    /\ runs' = runs + 1
    /\ UNCHANGED <<op, args, stage, proxyVars, down, tries, faults, outcome,
                   calls, trans_ids, aggVars, batchVars, confVars>>

\* lines 391-392, with get_currencies(ccy) of lines 87-114
WdGetCurrencies ==
    /\ op \in {"withdraw", "batch"} /\ pc = "get_currencies"
    /\ Answers
    /\ \E data \in CurrencyData :
        LET found == GetCurrencies(data, "True", "True")
        IN  IF found = <<>>
            THEN /\ WdFail(<<"withdraw">>, "IndexError", calls)
                 /\ UNCHANGED <<min_fee, amt>>
            ELSE /\ min_fee' = Num(found[1].minFee)
                 /\ amt' = amt
                 /\ pc' = WdNext
                 /\ tries' = [tries EXCEPT !.get_currencies = Tries]
                 /\ UNCHANGED <<outcome, log, calls>>
    /\ UNCHANGED <<op, args, stage, proxyVars, down, runs, faults, balance,
                   trans_ids, aggVars, wallet, amount, delay, confVars>>

\* lines 394-398
WdGetBalances ==
    /\ op \in {"withdraw", "batch"} /\ pc = "get_balances"
    /\ Answers
    /\ \E snap \in Snapshots :
        /\ balance' = [funding |-> Some(snap), trading |-> None]
        /\ amt' = Num(Get(snap, WdArgs.ccy, 0))
    /\ pc' = "withdrawal"
    /\ UNCHANGED <<op, args, stage, proxyVars, down, runs, tries, faults,
                   outcome, calls, trans_ids, min_fee, aggVars, batchVars,
                   confVars>>

\* lines 400-409
WdWithdrawal ==
    /\ op \in {"withdraw", "batch"} /\ pc = "withdrawal"
    /\ Answers
    /\ \E resp \in Responses :
        LET cs == Append(calls, Withdrawal(resp))
        IN  IF resp.code # "0" THEN WdFail(<<"withdraw">>, "Exception", cs)
            ELSE IF Len(resp.data) < 1
            THEN WdFail(<<"withdraw">>, "Exception", cs)
            ELSE /\ WdEnd(Returned(StrValue(Num(resp.data[1]))))
                 /\ calls' = cs
                 /\ UNCHANGED tries
    /\ UNCHANGED <<op, args, stage, proxyVars, down, runs, faults, balance,
                   trans_ids, amt, min_fee, aggVars, wallet, amount, delay,
                   confVars>>

\* A REST call of withdraw raises
WdFault ==
    /\ op \in {"withdraw", "batch"}
    /\ Fails
    /\ \/ /\ pc = "get_currencies"
          /\ WdFail(<<"get_currencies", "withdraw">>, "Exception", calls)
       \/ /\ pc = "get_balances"
          /\ WdFail(<<"withdraw">>, "Exception", calls)
       \/ /\ pc = "withdrawal"
          /\ WdFail(<<"withdraw">>, "Exception",
                    Append(calls, Withdrawal(NoAnswer)))
    /\ UNCHANGED <<op, args, stage, proxyVars, down, runs, balance, trans_ids,
                   amt, min_fee, aggVars, wallet, amount, delay, confVars>>

Fees == {NoNum} \cup {Num(1)}

InitWithdraw ==
    /\ op = "withdraw"
    /\ args \in [addr : {1}, ccy : Ccys, chain : {<<"ERC20">>}, amt : Amts,
                 min_fee : Fees]
    /\ pc = "withdraw"
    /\ tries = TriesInit
    /\ faults = 0
    /\ down \in {{}} \cup {{e} : e \in {"get_currencies", "get_balances",
                                        "withdrawal"}}
    /\ runs = 0
    /\ balance = NoBalance
    /\ outcome = NoOutcome
    /\ IdleAgg /\ IdleXfer /\ IdleBatch /\ IdleConf
    /\ IdleFlow /\ IdleProxies

NextWithdraw ==
    \/ Withdraw
    \/ WdGetCurrencies
    \/ WdGetBalances
    \/ WdWithdrawal
    \/ WdFault

SpecWithdraw == InitWithdraw /\ [][NextWithdraw]_vars

-----------------------------------------------------------------------------
(* Batch withdrawal loop: main.py, lines 132-147 *)

\* One turn of `for wallet in addresses`, lines 132-134 and 139-140: the two
\* draws are made before the try statement, so an error of a draw ends the
\* workflow; then okx.withdraw is invoked
ForWallet ==
    /\ op = "batch" /\ pc = "loop"
    /\ IF wallet = Len(args.addresses)
       THEN /\ pc' = "done"
            /\ outcome' = Returned(None)
            /\ UNCHANGED <<tries, runs, xferVars, batchVars>>
       ELSE /\ wallet' = wallet + 1
            /\ amount' \in Uniform(okx_config.amounts[1],
                                   okx_config.amounts[2])
            /\ IF RandIntRaises(okx_config.delays[1], okx_config.delays[2])
               THEN /\ pc' = "done"
                    /\ outcome' = Raised("ValueError")
                    /\ UNCHANGED <<tries, runs, xferVars, delay, log>>
               ELSE /\ delay' \in RandInt(okx_config.delays[1],
                                          okx_config.delays[2])
                    /\ log' = Append(log, [ev |-> "withdraw",
                                           addr |-> args.addresses[wallet'],
                                           amt |-> amount'])
                    /\ pc' = "withdraw"
                    /\ tries' = TriesInit
                    /\ runs' = 0
                    /\ calls' = <<>>
                    /\ amt' = NoNum
                    /\ min_fee' = NoNum
                    /\ UNCHANGED <<outcome, trans_ids>>
    /\ UNCHANGED <<op, args, stage, proxyVars, down, faults, balance, aggVars,
                   confVars>>

\* The configurations the batch runs under: a fixed amount, and a fixed
\* delay, negative or not, or a proper or a reversed range of delays
BatchSettings ==
    {c \in [amounts : Settings, delays : Settings] :
        /\ c.amounts = Scalar([float |-> FALSE, n |-> Denom])
        /\ \/ c.delays = Scalar([float |-> FALSE, n |-> 0 - Denom])
           \/ \E x \in {y \in Numbers : ~y.float /\ y.n \in 0..Denom} :
                 c.delays \in {Scalar(x),
                               List([float |-> FALSE, n |-> 0], x),
                               List(x, [float |-> FALSE, n |-> 0])}}

\* main.py, lines 46-49: the workflow goes on with at least one address
AddressLists == UNION {[1..n -> 1..MaxAddrs] : n \in 1..MaxAddrs}

\* The state the workflow enters the loop in, with the chain of line 102
\* and its fee
InitBatch ==
    /\ op = "batch"
    /\ \E c \in Ccys :
        args \in [addresses : AddressLists, ccy : {c},
                  chain : {<<c, "ERC20">>}, min_fee : {Num(1)}]
    /\ pc = "loop"
    /\ tries = TriesInit
    /\ faults = 0
    /\ down = {}
    /\ runs = 0
    /\ balance = NoBalance
    /\ outcome = NoOutcome
    /\ parsed \in BatchSettings
    /\ okx_config = [amounts |-> Amounts(parsed.amounts),
                     delays |-> Delays(parsed.delays)]
    /\ IdleAgg /\ IdleXfer /\ IdleBatch
    /\ IdleFlow /\ IdleProxies

\* The loop passes both amount and min_fee, so withdraw looks up neither
NextBatch ==
    \/ ForWallet
    \/ Withdraw
    \/ WdWithdrawal
    \/ WdFault

SpecBatch == InitBatch /\ [][NextBatch]_vars

-----------------------------------------------------------------------------
(* Withdraw workflow: main.py, lines 93-130, from the choice of the chain  *)
(* to the loop over the addresses                                          *)

\* A chain identifier is the sequence of its dash-separated parts:
\* 'ETH-ERC20' is <<"ETH", "ERC20">>.
\* chain.replace(ccy + "-", ""): every part `ccy` that a dash follows goes
RECURSIVE StripCcy(_, _)
StripCcy(chain, ccy) ==
    IF Len(chain) <= 1 THEN chain
    ELSE IF Head(chain) = ccy THEN StripCcy(Tail(chain), ccy)
    ELSE <<Head(chain)>> \o StripCcy(Tail(chain), ccy)

\* line 93: {chain['chain']: chain['minFee'] for chain in currencies
\*           if chain['ccy'] == ccy}; of two lines of one chain the later
\* one stays
ChainsOf(currencies, ccy) ==
    LET own == SelectSeq(currencies, LAMBDA c : c.ccy = ccy)
        last(id) == CHOOSE i \in DOMAIN own :
                        /\ own[i].chain = id
                        /\ \A k \in DOMAIN own : own[k].chain = id => k <= i
    IN  [id \in {own[i].chain : i \in DOMAIN own} |-> own[last(id)].minFee]

\* lines 95-99: the option shown for the chain `id` is
\* f'{id.replace(ccy + "-", "")} | Fee: ..', and the chain the workflow goes
\* on with is f'{ccy}-{option.split(" | ")[0]}'
ChosenChain(id, ccy) == <<ccy>> \o StripCcy(id, ccy)

\* with_sub_accounts=okx_config.use_subs: balances has 'subs' when use_subs
UseSubs == ~balances.subs.none

\* The workflow calls the account method f from the statement `st`
Invoke(st, f) ==
    /\ stage' = st
    /\ pc' = f
    /\ tries' = TriesInit
    /\ runs' = 0
    /\ calls' = <<>>
    /\ trans_ids' = <<>>
    /\ amt' = NoNum
    /\ balance' = NoBalance

\* The statement calls nothing
NoCall(next) ==
    /\ stage' = ""
    /\ pc' = next
    /\ UNCHANGED <<tries, runs, calls, trans_ids, amt, balance>>

\* beaupy.select(options, strict=True) with no option: the menu library,
\* which is not part of the sources, documents a ValueError
SelectNothing == "ValueError"

\* lines 93-105: the user picks one of the options; with no chain listed for
\* the currency the menu of line 98 raises, and chains[chain] raises KeyError
\* when the chain built from the option is not a listed one
SelectChain ==
    /\ op = "batch" /\ pc = "select_chain"
    /\ LET chains == ChainsOf(args.currencies, args.ccy)
       IN  IF DOMAIN chains = {}
           THEN /\ pc' = "done"
                /\ outcome' = Raised(SelectNothing)
                /\ UNCHANGED args
           ELSE \E id \in DOMAIN chains :
            LET chain == ChosenChain(id, args.ccy)
            IN  IF chain \in DOMAIN chains
                THEN /\ args' = [args EXCEPT !.selected = id,
                                             !.chain = chain,
                                             !.min_fee = Num(chains[chain])]
                     /\ pc' = IF UseSubs THEN "for_sub" ELSE "if_main_trading"
                     /\ UNCHANGED outcome
                ELSE /\ args' = [args EXCEPT !.selected = id]
                     /\ pc' = "done"
                     /\ outcome' = Raised("KeyError")
    /\ UNCHANGED <<op, stage, proxyVars, down, tries, runs, faults, balance,
                   aggVars, xferVars, batchVars, confVars>>

\* lines 107-116: the next sub-account and its funding balance
ForSub ==
    /\ op = "batch" /\ pc = "for_sub"
    /\ IF sub = Len(sub_list)
       THEN NoCall("if_main_trading") /\ UNCHANGED sub
       ELSE /\ sub' = sub + 1
            /\ LET funding == balances.subs.d[sub_list[sub + 1]].funding
                   funding_bal == Get(funding.d, args.ccy, 0)
               IN  IF funding_bal > 0
                   THEN Invoke("funding_of_sub", "transfer_from_sub")
                   ELSE NoCall("if_trading")
    /\ UNCHANGED <<op, args, proxyVars, down, faults, outcome, prices,
                   balances, sub_list, listed, requests, min_fee, batchVars,
                   confVars>>

\* lines 117-122: the trading balance of the sub-account
IfTrading ==
    /\ op = "batch" /\ pc = "if_trading"
    /\ LET trading == SubBalance.trading
       IN  IF ~trading.none /\ Get(trading.d, args.ccy, 0) > 0
           THEN Invoke("trading_of_sub", "transfer_from_sub")
           ELSE NoCall("for_sub")
    /\ UNCHANGED <<op, args, proxyVars, down, faults, outcome, aggVars,
                   min_fee, batchVars, confVars>>

\* lines 124-130: the trading balance of the main account
IfMainTrading ==
    /\ op = "batch" /\ pc = "if_main_trading"
    /\ LET trading_balance == balances.main.trading
       IN  IF /\ ~trading_balance.none
              /\ Get(trading_balance.d, args.ccy, 0) > 0
           THEN Invoke("main_trading", "transfer_from_trading")
           ELSE NoCall("loop")
    /\ UNCHANGED <<op, args, proxyVars, down, faults, outcome, aggVars,
                   min_fee, batchVars, confVars>>

\* The lines of the currency metadata that get_currencies(can_deposit=None,
\* can_withdraw=True) returned: one or two chains, each named after its
\* currency
Listings ==
    LET ids == {<<c, n>> : c \in Ccys, n \in Chains}
        line == {d \in [ccy : Ccys, chain : ids, minFee : 1..2] :
                    d.chain[1] = d.ccy}
    IN  {<<d>> : d \in line}
            \cup {<<d, e>> : d \in line, e \in {x \in line : x.minFee = 1}}

\* What get_total_balances returns with usd_eq = True, `data` being the
\* answer of the main trading call (None: no line at all): the sub-accounts'
\* ledgers (None without sub-accounts), the main ledgers and their sum. In
\* funding-only mode main trading is None and the sum is valued (lines
\* 318-325); with no trading line main trading is {} and the sum is left as
\* raw numbers (lines 327-329); else the sum is valued (lines 331-351).
View(names, subs, funding, only_funding, data, pr) ==
    LET t0 == IF subs.none THEN EmptyDict
              ELSE SumSubs(subs.d, names, EmptyDict).total
        t1 == AddTo(t0, funding)
    IN  IF only_funding
        THEN [total |-> Valuation(t1, pr), subs |-> subs,
              main |-> [funding |-> Some(funding), trading |-> None]]
        ELSE IF data.none
        THEN [total |-> t1, subs |-> subs,
              main |-> [funding |-> Some(funding),
                        trading |-> Some(EmptyDict)]]
        ELSE [total |-> Valuation(AddTo(t1, data.d), pr), subs |-> subs,
              main |-> [funding |-> Some(funding), trading |-> data]]

\* The ledgers of one account that hold at most the currency c
LedgersOf(c) ==
    LET snaps == {EmptyDict} \cup {[x \in {c} |-> v] : v \in 0..MaxBal}
    IN  [funding : {Some(f) : f \in snaps}, trading : {Some(t) : t \in snaps}]

\* The total is a dict of raw numbers, which balance['usd'] of line 83
\* cannot read
Unvalued == \E c \in DOMAIN balances.total : ~balances.total[c].valued

\* lines 80-85: the currencies worth at least 1 USD get an option
\* f"{balance['balance']} - {ccy} ({round(balance['usd'], 2)}$)"
CurrencyOptions ==
    {[balance |-> balances.total[c].balance, ccy |-> c,
      usd |-> balances.total[c].usd] :
        c \in {x \in DOMAIN balances.total : ~(balances.total[x].usd < 1)}}

\* line 89: option.split(' - ')[-1].split()[0]
OptionCcy(option) == option.ccy

\* lines 77-91: the user picks one of the currencies offered; a total of raw
\* numbers raises TypeError at its first currency, and with no currency to
\* offer the menu of line 88 raises
SelectCurrency ==
    /\ op = "batch" /\ pc = "select_currency"
    /\ IF Unvalued
       THEN /\ pc' = "done"
            /\ outcome' = Raised("TypeError")
            /\ UNCHANGED args
       ELSE IF CurrencyOptions = {}
       THEN /\ pc' = "done"
            /\ outcome' = Raised(SelectNothing)
            /\ UNCHANGED args
       ELSE /\ \E option \in CurrencyOptions :
                  args' = [args EXCEPT !.ccy = OptionCcy(option)]
            /\ pc' = "select_chain"
            /\ UNCHANGED outcome
    /\ UNCHANGED <<op, stage, proxyVars, down, tries, runs, faults, balance,
                   aggVars, xferVars, batchVars, confVars>>

\* The state the workflow is in at line 77, every address being withdrawn a
\* fixed amount without a pause
InitFlow ==
    /\ op = "batch"
    /\ pc = "select_currency"
    /\ args.addresses = <<1>> /\ args.ccy = ""
    /\ args.selected = <<>> /\ args.chain = <<>> /\ args.min_fee = NoNum
    /\ tries = TriesInit
    /\ faults = 0
    /\ down = {}
    /\ runs = 0
    /\ balance = NoBalance
    /\ outcome = NoOutcome
    /\ sub = 0 /\ listed = 0 /\ requests = NoRequests
    /\ parsed = [amounts |-> Scalar([float |-> FALSE, n |-> Denom]),
                 delays |-> Scalar([float |-> FALSE, n |-> 0])]
    /\ okx_config = [amounts |-> Amounts(parsed.amounts),
                     delays |-> Delays(parsed.delays)]
    /\ IdleXfer /\ IdleBatch /\ IdleFlow /\ IdleProxies

\* The main ledgers without sub-accounts, and any chains
InitSelect ==
    /\ \E c \in Ccys :
        /\ args \in [addresses : {<<1>>}, ccy : {""}, currencies : Listings,
                     selected : {<<>>}, chain : {<<>>}, min_fee : {NoNum}]
        /\ \E t \in Tickers : prices = Some(PricesOf({t}))
        /\ sub_list = <<>>
        /\ \E v \in 0..MaxBal, only_funding \in BOOLEAN,
                  data \in {None, Some(EmptyDict)} :
              balances = View(<<>>, None, [x \in {c} |-> v], only_funding,
                              data, prices.d)
    /\ InitFlow

\* One chain, and any ledgers of the sub-accounts and of main trading
InitRoute ==
    /\ \E c \in Ccys :
        /\ args = [addresses |-> <<1>>, ccy |-> "",
                   currencies |-> <<[ccy |-> c, chain |-> <<c, "ERC20">>,
                                     minFee |-> 1]>>,
                   selected |-> <<>>, chain |-> <<>>, min_fee |-> NoNum]
        /\ \E t \in Tickers : t[3] = 1 /\ prices = Some(PricesOf({t}))
        /\ \E n \in 1..MaxSubs :
            /\ sub_list = [i \in 1..n |-> i]
            /\ \E subs \in [1..n -> LedgersOf(c)],
                  data \in {None} \cup {t.trading : t \in LedgersOf(c)} :
                  balances = View(sub_list, Some(subs), EmptyDict, FALSE,
                                  data, prices.d)
    /\ InitFlow

InitWorkflow == InitSelect \/ InitRoute

NextWorkflow ==
    \/ SelectCurrency
    \/ SelectChain
    \/ ForSub
    \/ IfTrading
    \/ IfMainTrading
    \/ TransferFromSub
    \/ FundingLeg
    \/ TradingLeg
    \/ XferSubFault
    \/ TransferFromTrading
    \/ FundsTransfer
    \/ XferTradingFault
    \/ ForWallet
    \/ Withdraw
    \/ WdWithdrawal
    \/ WdFault

SpecWorkflow == InitWorkflow /\ [][NextWorkflow]_vars

-----------------------------------------------------------------------------
(* Proxy validation: utils.py, check_proxy and check_proxies. A proxy       *)
(* string and the text of a response are the sequences of their parts:     *)
(* 'h1:80' is <<"h1", "80">>, '' is <<>>.                                   *)

Hosts == {"h1", "h2"}

\* The candidates: the empty string, and host:port
Candidates == {<<>>} \cup {<<h, "80">> : h \in Hosts}

\* httpx.get(..).text.strip(): the request raises, or answers with a text
Texts == {<<>>} \cup {<<h>> : h \in Hosts}

Probes == {[raise |-> TRUE, text |-> <<>>]}
              \cup {[raise |-> FALSE, text |-> t] : t \in Texts}

\* `response in proxy`: the text is a substring of the proxy
IsIn(response, proxy) ==
    \E k \in 0..(Len(proxy) - Len(response)) :
        SubSeq(proxy, k + 1, k + Len(response)) = response

\* check_proxy, lines 34-43
CheckProxy(proxy, probe) ==
    IF proxy = <<>> THEN FALSE
    ELSE IF probe.raise THEN FALSE
    ELSE IsIn(probe.text, proxy)

\* Mutant of ListAppend: an append that starts from an empty list again
ListAppendLost(list, x) == <<x>>

\* valid.append(raw_proxy): one indivisible step of the interpreter
ListAppend(list, x) == Append(list, x)

\* threading.Thread(target=check_func, args=(proxy,)), not started yet
NewThread(proxy) == [state |-> "new", proxy |-> proxy, ok |-> FALSE]

\* The first thread in the state st, 0 when there is none
FirstIn(st) ==
    IF \E i \in DOMAIN threads : threads[i].state = st
    THEN CHOOSE i \in DOMAIN threads :
            /\ threads[i].state = st
            /\ \A k \in DOMAIN threads : threads[k].state = st => i <= k
    ELSE 0

\* lines 88-90: one turn of `for proxy in proxies`
CreateThread ==
    /\ op = "check_proxies" /\ pc = "create"
    /\ IF Len(threads) < Len(args.proxies)
       THEN /\ threads' = Append(threads,
                                 NewThread(args.proxies[Len(threads) + 1]))
            /\ UNCHANGED pc
       ELSE /\ pc' = "start"
            /\ UNCHANGED threads
    /\ UNCHANGED <<op, args, stage, valid, down, tries, runs, faults, balance,
                   outcome, aggVars, xferVars, batchVars, confVars>>

\* lines 92-93: one turn of `for thread in threads: thread.start()`
StartThread ==
    /\ op = "check_proxies" /\ pc = "start"
    /\ IF FirstIn("new") # 0
       THEN /\ threads' = [threads EXCEPT ![FirstIn("new")].state = "started"]
            /\ UNCHANGED pc
       ELSE /\ pc' = "join"
            /\ UNCHANGED threads
    /\ UNCHANGED <<op, args, stage, valid, down, tries, runs, faults, balance,
                   outcome, aggVars, xferVars, batchVars, confVars>>

\* The thread i, line 86: check_proxy(raw_proxy) answers; an empty proxy
\* makes no request
CheckFunc(i) ==
    /\ op = "check_proxies"
    /\ i \in DOMAIN threads /\ threads[i].state = "started"
    /\ \E probe \in Probes :
        /\ threads[i].proxy = <<>> => probe.raise
        /\ threads' = [threads EXCEPT
                        ![i].state = "checked",
                        ![i].ok = CheckProxy(threads[i].proxy, probe)]
    /\ UNCHANGED <<op, args, pc, stage, valid, down, tries, runs, faults,
                   balance, outcome, aggVars, xferVars, batchVars, confVars>>

\* The thread i, lines 86-87: the append, and the end of the thread
ValidAppend(i) ==
    /\ op = "check_proxies"
    /\ i \in DOMAIN threads /\ threads[i].state = "checked"
    /\ valid' = IF threads[i].ok THEN ListAppend(valid, threads[i].proxy)
                ELSE valid
    /\ threads' = [threads EXCEPT ![i].state = "ended"]
    /\ UNCHANGED <<op, args, pc, stage, down, tries, runs, faults, balance,
                   outcome, aggVars, xferVars, batchVars, confVars>>

\* lines 95-98: one turn of `for thread in threads: thread.join()`, which
\* waits for the thread to end, and the return after the last turn
JoinThread ==
    /\ op = "check_proxies" /\ pc = "join"
    /\ LET waiting == {i \in DOMAIN threads : threads[i].state # "joined"}
       IN  IF waiting # {}
           THEN LET i == CHOOSE w \in waiting : \A k \in waiting : w <= k
                IN  /\ threads[i].state = "ended"
                    /\ threads' = [threads EXCEPT ![i].state = "joined"]
                    /\ UNCHANGED <<pc, outcome>>
           ELSE /\ pc' = "done"
                /\ outcome' = Returned(valid)
                /\ UNCHANGED threads
    /\ UNCHANGED <<op, args, stage, valid, down, tries, runs, faults, balance,
                   aggVars, xferVars, batchVars, confVars>>

ProxyLists == UNION {[1..n -> Candidates] : n \in 0..MaxProxies}

InitProxies ==
    /\ op = "check_proxies"
    /\ args \in [proxies : ProxyLists]
    /\ pc = "create"
    /\ tries = TriesInit
    /\ faults = 0
    /\ down = {}
    /\ runs = 0
    /\ balance = NoBalance
    /\ outcome = NoOutcome
    /\ IdleAgg /\ IdleXfer /\ IdleBatch /\ IdleConf
    /\ IdleFlow /\ IdleProxies

NextProxies ==
    \/ CreateThread
    \/ StartThread
    \/ \E i \in 1..MaxProxies : CheckFunc(i)
    \/ \E i \in 1..MaxProxies : ValidAppend(i)
    \/ JoinThread

SpecProxies == InitProxies /\ [][NextProxies]_vars

-----------------------------------------------------------------------------
(* The retry-wrapped operations of OkxAccount, each called on its own *)

InitOperations ==
    \/ InitAggregate
    \/ InitTransfer
    \/ InitWithdraw

NextOperations ==
    \/ NextAggregate
    \/ NextTransfer
    \/ NextWithdraw

SpecOperations == InitOperations /\ [][NextOperations]_vars

-----------------------------------------------------------------------------
(* The whole program *)

Init ==
    \/ InitAggregate
    \/ InitTransfer
    \/ InitWithdraw
    \/ InitBatch
    \/ InitConfig
    \/ InitWorkflow
    \/ InitProxies

Next ==
    \/ NextAggregate
    \/ NextTransfer
    \/ NextWithdraw
    \/ ForWallet
    \/ NextConfig
    \/ SelectCurrency
    \/ SelectChain
    \/ ForSub
    \/ IfTrading
    \/ IfMainTrading
    \/ NextProxies

Spec == Init /\ [][Next]_vars

-----------------------------------------------------------------------------
(* Properties of the Balance Aggregator *)

\* What one snapshot holds of a currency: absent counts as zero
Avail(snap, c) == IF snap.none THEN 0 ELSE Get(snap.d, c, 0)

RECURSIVE SumOver(_, _, _)
SumOver(S, subs, c) ==
    IF S = {} THEN 0
    ELSE LET s == CHOOSE x \in S : TRUE
         IN  Avail(subs[s].funding, c) + Avail(subs[s].trading, c)
             + SumOver(S \ {s}, subs, c)

\* The sum of a currency over all ledgers of the view `b`
LedgerSum(b, c) ==
    Avail(b.main.funding, c) + Avail(b.main.trading, c)
    + (IF b.subs.none THEN 0 ELSE SumOver(DOMAIN b.subs.d, b.subs.d, c))

\* The raw balance the view records for a currency: absent counts as zero
RawTotal(b, c) == IF c \in DOMAIN b.total THEN b.total[c].balance ELSE 0

AggReturned ==
    op = "get_total_balances" /\ pc = "done" /\ outcome.kind = "return"

\* C1: in full mode (only_funding = False) the raw balance of every currency
\* in 'total' is the sum of that currency over main funding, main trading
\* and the funding and trading snapshots of every fetched sub-account, also
\* when an attempt failed and the call was retried.
C1_TotalIsLedgerSum ==
    (AggReturned /\ ~args.only_funding) =>
        \A c \in Ccys : RawTotal(outcome.value, c) = LedgerSum(outcome.value, c)

\* C1 witness: a full-mode view returned after a retried attempt, with a
\* sub-account, whose total of a currency adds up three ledgers or more.
C1_Witness ==
    /\ AggReturned /\ ~args.only_funding /\ faults > 0
    /\ ~outcome.value.subs.none /\ DOMAIN outcome.value.subs.d # {}
    /\ \E c \in Ccys : RawTotal(outcome.value, c) >= 3

\* C9: funding-only mode with sub-accounts, the exchange lists at least one
\* sub-account and every call succeeds: the operation returns a view whose
\* trading snapshots are all absent and whose totals are the sums of the
\* funding snapshots; it does not end in an error.
C9_FundingOnlyWithSubsReturns ==
    (/\ op = "get_total_balances" /\ pc = "done"
     /\ args.only_funding /\ args.with_sub_accounts
     /\ faults = 0 /\ down = {} /\ listed >= 1) =>
        /\ outcome.kind = "return"
        /\ outcome.value.main.trading.none
        /\ \A s \in DOMAIN outcome.value.subs.d :
              outcome.value.subs.d[s].trading.none
        /\ \A c \in Ccys :
              RawTotal(outcome.value, c) = LedgerSum(outcome.value, c)

\* C10: with USD valuation requested, every entry of 'total' of a returned
\* view carries the raw balance and balance x price (zero without a price),
\* on every return path.
C10_TotalIsValued ==
    (AggReturned /\ args.usd_eq) =>
        \A c \in DOMAIN outcome.value.total :
            LET e == outcome.value.total[c]
            IN  e.valued /\ e.usd = e.balance * Get(prices.d, c, 0)

-----------------------------------------------------------------------------
(* Properties of the Fund Router *)

\* The funds_transfer calls of the attempt of f that is running (at "done":
\* of the attempt that ended the operation)
FinalCalls(f) == SelectSeq(calls, LAMBDA c : c.attempt = Attempt(f))

XferSubReturned ==
    op = "transfer_from_sub" /\ pc = "done" /\ outcome.kind = "return"

\* The identifiers the exchange gave for the calls `cs`, in their order
RECURSIVE IdsOf(_)
IdsOf(cs) ==
    IF cs = <<>> THEN <<>>
    ELSE <<Num(Head(cs).resp.data[1])>> \o IdsOf(Tail(cs))

\* C2: with from_trading = None the result is null when no leg ran, and
\* otherwise the identifiers of the legs that ran, funding leg first,
\* trading leg second (one element when one leg ran, two when both ran).
C2_ResultHoldsLegIds ==
    LET cs == FinalCalls("transfer_from_sub")
    IN  (/\ XferSubReturned /\ args.from_trading = "None"
         /\ \A i \in DOMAIN cs : Succeeded(cs[i].resp)) =>
            /\ \A i, j \in DOMAIN cs :
                  (cs[i].from = 6 /\ cs[j].from = 18) => i < j
            /\ outcome.value =
                  (IF cs = <<>> THEN NoneValue ELSE ListValue(IdsOf(cs)))

\* C3: with amt = None and a re-fetched balance of the currency that is zero
\* or absent on both ledgers, transfer_from_sub returns null and that
\* attempt issues no funds_transfer call, whatever from_trading and
\* to_trading are.
C3_ZeroBalanceNoTransfer ==
    (/\ op = "transfer_from_sub" /\ pc = "done" /\ args.amt.none
     /\ ~balance.funding.none
     /\ Avail(balance.funding, args.ccy) = 0
     /\ Avail(balance.trading, args.ccy) = 0) =>
        /\ outcome = Returned(NoneValue)
        /\ FinalCalls("transfer_from_sub") = <<>>

\* C3 witness: the call ended after fetching a funding line of the currency
\* with balance zero and a trading snapshot without the currency.
C3_Witness ==
    /\ op = "transfer_from_sub" /\ pc = "done" /\ args.amt.none
    /\ args.from_trading = "None"
    /\ ~balance.funding.none /\ ~balance.trading.none
    /\ args.ccy \in DOMAIN balance.funding.d
    /\ balance.funding.d[args.ccy] = 0
    /\ args.ccy \notin DOMAIN balance.trading.d
    /\ outcome = Returned(NoneValue)

\* C4: an operation of the router that issued a funds_transfer call whose
\* answer carries a non-success code, or the success code without a record,
\* ends that attempt by raising: it never returns normally from it.
C4_BadAnswerNeverReturns ==
    (/\ op \in {"transfer_from_sub", "transfer_from_trading"}
     /\ pc = "done" /\ outcome.kind = "return") =>
        \A i \in DOMAIN FinalCalls(op) :
            LET resp == FinalCalls(op)[i].resp
            IN  resp.none \/ Succeeded(resp)

-----------------------------------------------------------------------------
(* Properties of the Withdrawal Executor *)

\* The submissions of withdraw whose arguments are on record
Submitted == {i \in DOMAIN calls : "amt" \in DOMAIN calls[i]}

\* C5: withdraw, when the exchange answers every submission with the success
\* code and an empty record list, raises BrokenResponseError, an error kind
\* other than the one raised for a non-success code.
C5_EmptyRecordsRaiseBrokenResponse ==
    (/\ op = "withdraw" /\ pc = "done"
     /\ calls # <<>>
     /\ \A i \in DOMAIN calls : calls[i].resp = Empty)
    => (outcome.kind = "raise" /\ outcome.err = "BrokenResponseError")

\* C6: withdraw called without an amount submits the available balance of
\* the currency in the main funding ledger as fetched in the same attempt
\* (zero when the currency is absent); every attempt fetches it again.
C6_OmittedAmountIsFetchedBalance ==
    (op = "withdraw" /\ args.amt.none) =>
        /\ pc = "withdrawal" =>
              /\ ~balance.funding.none
              /\ amt = Num(Avail(balance.funding, args.ccy))
        /\ \A i \in Submitted :
              /\ ~balance.funding.none
              /\ calls[i].amt = Avail(balance.funding, args.ccy)

\* A withdrawal without an amount that went through on a later attempt and
\* submitted the balance that attempt fetched
C6_Witness ==
    /\ op = "withdraw" /\ args.amt.none
    /\ pc = "done" /\ outcome.kind = "return"
    /\ tries.withdraw < Tries
    /\ Len(calls) >= 2
    /\ calls[Len(calls)].amt = MaxBal
    /\ Avail(balance.funding, args.ccy) = MaxBal

-----------------------------------------------------------------------------
(* Properties of the batch withdrawal loop *)

RECURSIVE Invoked(_)
\* The addresses okx.withdraw was invoked for, in the order of the calls
Invoked(l) ==
    IF l = <<>> THEN <<>>
    ELSE (IF Head(l).ev = "withdraw" THEN <<Head(l).addr>> ELSE <<>>)
         \o Invoked(Tail(l))

\* The draws of the loop cannot fail under the configuration
DrawsSucceed == ~RandIntRaises(okx_config.delays[1], okx_config.delays[2])

\* C7 as stated: whatever the addresses and the failures of the
\* withdrawals, the loop invokes okx.withdraw once for every address, in
\* file order, and reaches the end of the list.
C7_EveryAddressInvoked ==
    (op = "batch" /\ pc = "done") => Invoked(log) = args.addresses

\* C7, amended: okx.withdraw is invoked for the addresses in file order,
\* once each; a failed withdrawal never ends the loop; under a configuration
\* whose delay range is not empty and integral the finished loop has invoked
\* it for every address.
C7_EveryAddressInvokedWhenDrawsSucceed ==
    op = "batch" =>
        /\ Len(Invoked(log)) <= Len(args.addresses)
        /\ Invoked(log) = SubSeq(args.addresses, 1, Len(Invoked(log)))
        /\ pc = "done" =>
              \/ Invoked(log) = args.addresses
              \/ ~DrawsSucceed /\ outcome = Raised("ValueError")

\* A finished batch whose first withdrawal failed and whose second went
\* through
C7_Witness ==
    /\ op = "batch" /\ pc = "done"
    /\ Len(args.addresses) >= 2
    /\ \E i \in DOMAIN log : \E j \in DOMAIN log :
          /\ i < j
          /\ log[i] = [ev |-> "failed", addr |-> args.addresses[1]]
          /\ log[j] = [ev |-> "made", addr |-> args.addresses[2]]

-----------------------------------------------------------------------------
(* Properties of the configuration draws *)

Lower(x, y) == IF x <= y THEN x ELSE y

Upper(x, y) == IF x <= y THEN y ELSE x

\* The drawn amount lies between the two stored bounds
AmountInRange ==
    LET a == okx_config.amounts[1].n * Grain
        b == okx_config.amounts[2].n * Grain
    IN  Lower(a, b) <= amount /\ amount <= Upper(a, b)

\* The drawn delay lies between the two stored bounds
DelayInRange ==
    okx_config.delays[1].n <= delay /\ delay <= okx_config.delays[2].n

AmountDrawn == op = "config" /\ pc \in {"delay", "done"}

DelayDrawn == op = "config" /\ pc = "done" /\ outcome.kind = "return"

\* C8 as stated: every draw of amount() and delay() lies in the configured
\* range, and under a scalar v every draw equals v.
C8_DrawsInConfiguredRange ==
    /\ AmountDrawn =>
          /\ AmountInRange
          /\ ~parsed.amounts.list => amount = parsed.amounts.v[1].n * Grain
    /\ DelayDrawn =>
          /\ DelayInRange
          /\ ~parsed.delays.list => delay = parsed.delays.v[1].n

\* C8, amended: every draw lies between the two stored bounds; under a
\* scalar amount v every draw equals v; under a scalar delay v every draw
\* equals v with its fraction cut off (towards zero, as int() does).
C8_DrawsInStoredRange ==
    /\ AmountDrawn =>
          /\ AmountInRange
          /\ ~parsed.amounts.list => amount = parsed.amounts.v[1].n * Grain
    /\ DelayDrawn =>
          /\ DelayInRange
          /\ ~parsed.delays.list =>
                LET v == parsed.delays.v[1].n
                IN  /\ delay % Denom = 0
                    /\ v >= 0 => delay <= v /\ v < delay + Denom
                    /\ v < 0 => v <= delay /\ delay - Denom < v

\* A scalar delay with a fraction was drawn, and an amount strictly inside
\* a proper range
C8_Witness ==
    /\ DelayDrawn
    /\ ~parsed.delays.list /\ parsed.delays.v[1].n % Denom # 0
    /\ parsed.amounts.list
    /\ okx_config.amounts[1].n * Grain < amount
    /\ amount < okx_config.amounts[2].n * Grain

-----------------------------------------------------------------------------
(* Properties of the retry decorator *)

RetryOps ==
    {"get_total_balances", "transfer_from_sub", "transfer_from_trading",
     "withdraw"}

\* C11: when the body of get_total_balances, transfer_from_sub,
\* transfer_from_trading or withdraw fails on every attempt, the body has
\* run exactly 5 times when the error reaches the caller, whatever the kind
\* of the failure; the body never runs more often than that.
C11_FailedBodyRunsFiveTimes ==
    op \in RetryOps =>
        /\ runs <= Tries
        /\ (pc = "done" /\ outcome.kind = "raise") =>
              /\ runs = Tries
              /\ tries[op] = 0

\* transfer_from_trading gave up after five answers without a record, the
\* last of which is the error the caller gets
C11_Witness ==
    /\ op = "transfer_from_trading" /\ pc = "done"
    /\ outcome = Raised("BrokenResponseError")
    /\ runs = Tries
    /\ Len(calls) = Tries
    /\ \A i \in DOMAIN calls : calls[i].resp = Empty

-----------------------------------------------------------------------------
(* Properties of the sub-account listing *)

\* C12: the sub-accounts whose balances get_total_balances fetches and sums
\* are exactly those the exchange listed that can transfer out; one that
\* cannot transfer out is not part of the aggregate.
C12_OnlyTransferableSubsSummed ==
    (AggReturned /\ args.with_sub_accounts) =>
        DOMAIN outcome.value.subs.d = {s \in 1..listed : CanTransOut(s)}

\* C18: with the sub-account list call failing at every attempt,
\* get_total_balances ends with the error after exactly 5 x 5 x 5 calls of
\* the list endpoint, and calls no balance endpoint of a sub-account or of
\* the main account.
C18_ListOutageCostsAllNestedTries ==
    (/\ op = "get_total_balances" /\ args.with_sub_accounts
     /\ down = {"get_subaccount_list"}) =>
        /\ requests["get_subaccount_list"] <= Tries * Tries * Tries
        /\ \A e \in {"get_funding_balance", "sub.get_account_balance",
                     "get_balances", "account.get_account_balance"} :
              requests[e] = 0
        /\ pc = "done" =>
              /\ outcome = Raised("Exception")
              /\ requests["get_subaccount_list"] = Tries * Tries * Tries

\* The list outage has run its course, with valuation asked for
C18_Witness ==
    /\ op = "get_total_balances" /\ args.with_sub_accounts /\ args.usd_eq
    /\ down = {"get_subaccount_list"}
    /\ pc = "done" /\ outcome.kind = "raise"
    /\ requests["get_subaccount_list"] = Tries * Tries * Tries
    /\ requests["get_tickers"] = Tries

-----------------------------------------------------------------------------
(* Properties of the submissions of one withdraw invocation *)

\* The attempts of withdraw that have come to an end
EndedAttempts == IF pc \in {"done", "withdraw"} THEN 1..runs ELSE 1..(runs - 1)

\* C17 as stated: in one invocation of withdraw, a submission answered with
\* the success code and a record is the last one and its withdrawal id is
\* the result; there are never more than 5 submissions; after a submission
\* answered with success and no record the invocation goes on to submit the
\* withdrawal again while attempts remain.
C17_EmptyAnswerIsResubmitted ==
    op = "withdraw" =>
        /\ Len(calls) <= Tries
        /\ \A i \in DOMAIN calls :
              /\ Succeeded(calls[i].resp) =>
                    /\ i = Len(calls) /\ pc = "done"
                    /\ outcome =
                          Returned(StrValue(Num(calls[i].resp.data[1])))
              /\ calls[i].resp = Empty =>
                    \A a \in EndedAttempts :
                        a > calls[i].attempt =>
                            \E j \in DOMAIN calls : calls[j].attempt = a
        /\ (/\ pc = "done" /\ calls # <<>>
            /\ calls[Len(calls)].resp = Empty) => runs = Tries

\* C17, amended: in one invocation of withdraw, a submission answered with
\* the success code and a record is the last one and its withdrawal id is
\* the result; there are never more than 5 submissions; after a submission
\* answered with success and no record the body runs again while attempts
\* remain, and when both the amount and the fee were passed every attempt
\* submits the same address, currency, amount and fee again.
C17_SubmissionsOfOneInvocation ==
    op = "withdraw" =>
        /\ Len(calls) <= Tries
        /\ \A i \in DOMAIN calls :
              Succeeded(calls[i].resp) =>
                 /\ i = Len(calls) /\ pc = "done"
                 /\ outcome = Returned(StrValue(Num(calls[i].resp.data[1])))
        /\ (/\ pc = "done" /\ calls # <<>>
            /\ calls[Len(calls)].resp = Empty) => runs = Tries
        /\ (~args.amt.none /\ ~args.min_fee.none) =>
              /\ Len(calls) \in {runs - 1, runs}
              /\ \A i \in Submitted :
                    /\ calls[i].toAddr = args.addr
                    /\ calls[i].ccy = args.ccy
                    /\ calls[i].amt = args.amt.v
                    /\ calls[i].fee = args.min_fee.v

\* A withdrawal that went through at the second submission, the first one
\* having been answered without a record
C17_Witness ==
    /\ op = "withdraw" /\ pc = "done" /\ outcome.kind = "return"
    /\ ~args.amt.none /\ ~args.min_fee.none
    /\ Len(calls) = 2
    /\ calls[1].resp = Empty
    /\ Succeeded(calls[2].resp)

-----------------------------------------------------------------------------
(* Properties of the pauses of the batch loop *)

\* The loop is between two addresses, or past the last one
BetweenAddresses == op = "batch" /\ pc \in {"loop", "done"} /\ log # <<>>

\* The exchange accepted the withdrawal to the address the loop is at
Accepted == calls # <<>> /\ Succeeded(calls[Len(calls)].resp)

\* Amount and delay are drawn once for every address, before the call
DrawnOncePerAddress ==
    (op = "batch" /\ pc = "withdraw") =>
        /\ log[Len(log)] = [ev |-> "withdraw",
                            addr |-> args.addresses[wallet],
                            amt |-> amount]
        /\ Len(Invoked(log)) = wallet

\* C15 as stated: the loop pauses for the delay drawn for an address after
\* the withdrawal to that address if and only if the exchange accepted it;
\* after a failed withdrawal it goes on without a pause; amount and delay
\* are drawn once for every address.
C15_PauseIffWithdrawalMade ==
    /\ DrawnOncePerAddress
    /\ op = "batch" =>
        /\ \A k \in DOMAIN log :
              /\ log[k].ev = "sleep" => k > 1 /\ log[k - 1].ev = "made"
              /\ log[k].ev = "made" =>
                    k < Len(log) /\ log[k + 1].ev = "sleep"
        /\ (BetweenAddresses /\ outcome.kind # "raise") =>
              LET last == log[Len(log)]
              IN  /\ last.ev \in {"sleep", "failed"}
                  /\ last.ev = "sleep" <=> Accepted
                  /\ last.ev = "sleep" => last.secs = delay

\* C15, amended: the loop pauses for the delay drawn for an address after
\* the withdrawal to that address if and only if the exchange accepted it
\* and the delay is not negative; after an accepted withdrawal with a
\* negative delay the pause raises, the withdrawal is reported as failed and
\* the loop goes on without a pause; after a failed withdrawal it goes on
\* without a pause; amount and delay are drawn once for every address.
C15_PauseIffMadeAndDelayNotNegative ==
    /\ DrawnOncePerAddress
    /\ op = "batch" =>
        /\ \A k \in DOMAIN log :
              /\ log[k].ev = "sleep" =>
                    k > 1 /\ log[k - 1].ev = "made" /\ log[k].secs >= 0
              /\ log[k].ev = "made" =>
                    /\ k > 1 /\ log[k - 1].ev = "withdraw"
                    /\ k < Len(log)
                    /\ \/ log[k + 1].ev = "sleep"
                       \/ log[k + 1] = [ev |-> "failed", addr |-> log[k].addr]
              /\ log[k].ev = "failed" =>
                    /\ k > 1 /\ log[k - 1].ev \in {"withdraw", "made"}
                    /\ log[k - 1].addr = log[k].addr
        /\ (BetweenAddresses /\ outcome.kind # "raise") =>
              LET last == log[Len(log)]
              IN  /\ last.ev \in {"sleep", "failed"}
                  /\ last.ev = "sleep" <=> (Accepted /\ delay >= 0)
                  /\ last.ev = "sleep" => last.secs = delay
                  /\ (Accepted /\ delay < 0) =>
                        log[Len(log) - 1].ev = "made"
                  /\ ~Accepted => log[Len(log) - 1].ev = "withdraw"

\* An accepted withdrawal whose negative delay made the pause raise: it is
\* reported as made and as failed, and no pause follows
C15_NegativeDelayWitness ==
    /\ BetweenAddresses /\ Accepted /\ delay < 0
    /\ log[Len(log)].ev = "failed" /\ log[Len(log) - 1].ev = "made"

\* A finished batch that paused after the first address and went from the
\* failed second address on without a pause
C15_Witness ==
    /\ op = "batch" /\ pc = "done" /\ outcome.kind = "return"
    /\ Len(log) = 5
    /\ log[2].ev = "made" /\ log[3].ev = "sleep" /\ log[3].secs > 0
    /\ log[4].ev = "withdraw" /\ log[5].ev = "failed"

-----------------------------------------------------------------------------
(* Properties of the withdraw workflow *)

\* The chains of the selected currency and their fees, as the metadata lists
\* them
Listed == ChainsOf(args.currencies, args.ccy)

\* The workflow has gone past the choice of the chain
ChainSelected == op = "batch" /\ args.selected # <<>> /\ args.chain # <<>>

\* The withdrawals submitted whose arguments are on record
Withdrawals == {i \in Submitted : calls[i].api = "withdrawal"}

\* The fee the workflow passes on is the selected chain's own
FeeIsOfSelectedChain ==
    ChainSelected =>
        /\ args.min_fee = Num(Listed[args.selected])
        /\ \A i \in Withdrawals : calls[i].fee = Listed[args.selected]

\* C14: in the withdraw workflow, the chain identifier of every withdrawal
\* submitted to the exchange is the identifier of the selected chain as the
\* currency metadata lists it (one of the currency's chains), and the fee
\* submitted is that chain's own minimum fee.
C14_SubmittedChainIsSelectedChain ==
    /\ FeeIsOfSelectedChain
    /\ ChainSelected =>
          \A i \in Withdrawals :
              /\ calls[i].chain = args.selected
              /\ calls[i].chain \in DOMAIN Listed

\* A withdrawal submitted by the workflow after the user chose the second of
\* two chains
C14_SubmissionSeen ==
    /\ ChainSelected /\ Withdrawals # {}
    /\ Len(args.currencies) = 2
    /\ args.selected = args.currencies[2].chain
    /\ args.currencies[1].chain # args.selected

\* The funds_transfer calls on record that move `a` out of the ledger `from`
\* (6 funding, 18 trading) into main funding
Moved(from, a) ==
    \E i \in DOMAIN calls :
        /\ calls[i].api = "funds_transfer" /\ "amt" \in DOMAIN calls[i]
        /\ calls[i].from = from /\ calls[i].to = 6
        /\ calls[i].ccy = args.ccy /\ calls[i].amt = a

\* After the funding statement of a sub-account: its positive funding balance
\* was moved in full
SubFundingMoved ==
    (op = "batch" /\ pc = "if_trading") =>
        LET funding_bal == Get(SubBalance.funding.d, args.ccy, 0)
        IN  funding_bal > 0 => stage = "funding_of_sub" /\ Moved(6, funding_bal)

\* After the trading statement of a sub-account: its positive trading balance
\* was moved in full
SubTradingMoved ==
    (op = "batch" /\ pc = "for_sub" /\ sub >= 1) =>
        LET trading_bal == Get(SubBalance.trading.d, args.ccy, 0)
        IN  trading_bal > 0 => stage = "trading_of_sub" /\ Moved(18, trading_bal)

\* After the main trading statement: the positive main trading balance was
\* moved in full
MainTradingMoved ==
    (op = "batch" /\ pc = "loop" /\ wallet = 0
        /\ ~balances.main.trading.none) =>
        LET bal == Get(balances.main.trading.d, args.ccy, 0)
        IN  bal > 0 => stage = "main_trading" /\ Moved(18, bal)

\* C13: in the withdraw workflow with sub-accounts, for every sub-account and
\* the selected currency, a positive funding balance of the snapshot is moved
\* from the sub's funding ledger to main funding in full, a positive trading
\* balance is moved from the sub's trading ledger to main funding in full,
\* whatever the funding balance, and a positive main trading balance is moved
\* to main funding in full.
C13_PositiveBalancesMovedInFull ==
    /\ SubFundingMoved
    /\ SubTradingMoved
    /\ MainTradingMoved

\* The trading statement of a sub-account with no funding balance and a
\* positive trading balance has ended
C13_TradingOnlySubHandled ==
    /\ op = "batch" /\ pc = "for_sub" /\ sub >= 1
    /\ Get(SubBalance.funding.d, args.ccy, 0) = 0
    /\ Get(SubBalance.trading.d, args.ccy, 0) > 0

-----------------------------------------------------------------------------
(* Properties of the proxy validation *)

\* How often x occurs in the list
Occurrences(list, x) == Cardinality({i \in DOMAIN list : list[i] = x})

\* The threads whose check_proxy call returned True for the candidate c
SucceededFor(c) ==
    {i \in DOMAIN threads : threads[i].proxy = c /\ threads[i].ok}

\* C16: check_proxies makes one thread per candidate and returns only after
\* every thread has ended; whatever the interleaving, the list it returns
\* holds exactly the candidates whose check succeeded, each as often as it
\* succeeded, none being lost to a concurrent append.
C16_ValidHoldsSucceededCandidates ==
    op = "check_proxies" =>
        /\ Len(threads) <= Len(args.proxies)
        /\ \A i \in DOMAIN threads : threads[i].proxy = args.proxies[i]
        /\ pc # "done" => outcome = NoOutcome
        /\ pc = "done" =>
              /\ Len(threads) = Len(args.proxies)
              /\ \A i \in DOMAIN threads : threads[i].state = "joined"
              /\ outcome = Returned(valid)
              /\ \A c \in Candidates :
                    Occurrences(valid, c) = Cardinality(SucceededFor(c))

\* Two different candidates both succeeded, and the second one was appended
\* first
C16_Witness ==
    /\ op = "check_proxies" /\ pc = "done"
    /\ Len(args.proxies) = 2 /\ args.proxies[1] # args.proxies[2]
    /\ threads[1].ok /\ threads[2].ok
    /\ valid = <<args.proxies[2], args.proxies[1]>>

====
